---- MODULE Spec2Model ----
(***************************************************************************)
(* A model of src/src/App.jsx.                                             *)
(*                                                                         *)
(* Part 1: the hero scroll-jack state machine of the App component         *)
(* (React state heroState / showModal, the reset effect, the scroll-jack   *)
(* effect and its listeners, the 1500 ms transition timers, the 500 ms     *)
(* modal timer).  React is modelled by what it does to this code: setState *)
(* changes the hook state at once, a later Render makes it the rendered    *)
(* output, and a still later pass of passive effects (FlushEffects) cleans *)
(* up and re-runs the effects whose dependencies changed.  A listener is a *)
(* closure: it sees the heroState / showModal of the render its effect     *)
(* belongs to, not the current hook state.                                 *)
(*                                                                         *)
(* Part 2: the scroll-progress mapper of ParticleMorphScene (onScroll).    *)
(* Progress values are exact fractions <<numerator, denominator>>.         *)
(*                                                                         *)
(* Part 3: PixelBackground (noise, touch map, cell colouring, render loop) *)
(* and the frame loop of ParticleMorphScene (animate).  The window's       *)
(* requestAnimationFrame queue is the set raf of pending callbacks.        *)
(* Numbers that JavaScript keeps as doubles are kept in fixed point: a     *)
(* noise value is a number of thousandths, a touch intensity a number of   *)
(* 1/Levels.  The damped progress is an exact fraction; what animate does *)
(* to a particle (UpdateParticle) is exact on progress values that are     *)
(* multiples of 1/ProgressSteps, and animate rounds the damped progress    *)
(* down to such a multiple before it updates the particle.  One particle   *)
(* stands for the 512.                                                     *)
(*                                                                         *)
(* Part 4: CountUpAnimation (observer callback, count effect, frame loop). *)
(* Time is in milliseconds; progress is a number of 1/Duration and the     *)
(* ease value a number of 1/EaseScale.                                     *)
(***************************************************************************)
EXTENDS Integers, Sequences, FiniteSets, TLC

VARIABLES
    scrollY,              \* window.scrollY
    heroState,            \* useState hook value (App, line 583)
    showModal,            \* useState hook value (App, line 580)
    rendered,             \* heroState / showModal of the last render
    resetEffect,          \* reset effect: has it run, heroState its listener closes over
    jackEffect,           \* scroll-jack effect: has it run, are its listeners
                          \* registered, heroState / showModal they close over
    overflow,             \* document.body.style.overflow
    timers,               \* number of pending 1500 ms transition timers
    modalTimer,           \* the 500 ms modal timer: "none", "pending", "done"
    ev,                   \* history: the last event handled
    container,            \* containerRef.current and its bounding rect
    innerHeight,          \* window.innerHeight
    targetScrollProgress, \* targetScrollProgress.current, a fraction
    divided,              \* history: the last onScroll call evaluated a division
    appTorn,              \* App has been unmounted
    listeners,            \* window listeners: number registered, per handler
    raf,                  \* pending requestAnimationFrame callbacks [id, owner]
    rafNext,              \* the id the next requestAnimationFrame returns
    late,                 \* history: loops whose callback ran after their teardown
    bgStatus,             \* PixelBackground: "unmounted", "mounted", "torn"
    bgFrameId,            \* animationFrameId of the render loop (0: undefined)
    scrollRef,            \* scrollRef.current
    touchedPixels,        \* touchedPixels.current: key -> intensity
    canvas,               \* what the last render painted, per grid cell
    sceneStatus,          \* ParticleMorphScene: "unmounted", "mounted", "torn"
    sceneFrameId,         \* animationFrameId of animate (0: undefined)
    scrollProgress,       \* scrollProgress.current, a fraction
    particle,             \* one particle: delay, startPos, endPos
    mesh,                 \* its mesh: position and scale
    cell,                 \* one cell as the render loop colours it
    cuStatus,             \* CountUpAnimation: "unmounted", "mounted", "torn"
    endProp,              \* its prop end
    hasStarted,           \* useState hook value (line 269)
    count,                \* useState hook value (line 267)
    cuRendered,           \* hasStarted / count of its last render
    cuEffect,             \* its effects: have they run, hasStarted they close over
    startTime,            \* startTime of animate (0: null)
    cuFrameId,            \* animationFrameId of the count loop (0: undefined)
    lastStamp,            \* timestamp of the last frame of the count loop
    starts                \* history: number of count loops started

heroVars == <<scrollY, heroState, showModal, rendered, resetEffect, jackEffect,
              overflow, timers, modalTimer, appTorn, listeners>>
sceneVars == <<container, innerHeight, targetScrollProgress, divided>>
rafVars == <<raf, rafNext, late>>
bgVars == <<bgStatus, bgFrameId, scrollRef, touchedPixels, canvas>>
loopVars == <<sceneStatus, sceneFrameId, scrollProgress>>
morphVars == <<particle, mesh>>
cuVars == <<cuStatus, endProp, hasStarted, count, cuRendered, cuEffect, startTime,
            cuFrameId, lastStamp, starts>>
restVars == <<rafVars, bgVars, loopVars, morphVars, cell, cuVars>>
vars == <<heroVars, ev, sceneVars, restVars>>

----------------------------------------------------------------------------
(* Bounds and program constants *)

MaxScrollY == 120
MaxTimers == 3
MaxViewport == 2
MaxHeight == 10

MaxFrames == 4
MaxPos == 2
ProgressSteps == 6
DelaySteps == 2
StepsPerRun == 4
MaxCoord == 4
Cols == 5
Rows == 1
Levels == 2

Threshold == 50
NoStamp == -1
PaletteLength == 11
CellSize == 12
BrushRadius == 3
NoiseScale == 1000
Duration == 2000
EaseScale == 65536
PiCenti == 314
TwoPiCenti == 628

ScrollYs == {0, Threshold - 1, Threshold, Threshold + 1, MaxScrollY}
WheelDeltas == {-100, 0, 100}

----------------------------------------------------------------------------
(* Part 1: App *)

InitialHeroState(y) == IF y > Threshold THEN "swapped" ELSE "initial"

Event(type, deltaY) == [type |-> type, deltaY |-> deltaY]

Mounted == jackEffect.ran

(* App is mounted and has not been unmounted. *)
Alive == Mounted /\ ~appTorn

(* The handlers the components pass to window.addEventListener *)
Handlers == {"handleScrollReset", "handleInput.wheel", "handleInput.touchmove",
             "bg.handleScroll", "bg.handleMouseMove", "scene.onResize",
             "scene.onScroll"}

(* window.addEventListener / window.removeEventListener of handler h *)
Add(l, h) == [l EXCEPT ![h] = @ + 1]
RemoveNot(l, h) == l
Remove(l, h) == [l EXCEPT ![h] = IF @ > 0 THEN @ - 1 ELSE 0]

(* Cleanup of the scroll-jack effect (lines 646-648), if it registered. *)
JackRemoves(l) ==
    IF jackEffect.reg
      THEN Remove(Remove(l, "handleInput.wheel"), "handleInput.touchmove")
      ELSE l

(* Cleanup of the reset effect (line 613), if it has run. *)
ResetRemoves(l) == IF resetEffect.ran THEN Remove(l, "handleScrollReset") ELSE l

EffectsPending ==
    \/ ~jackEffect.ran
    \/ rendered.heroState # jackEffect.heroState
    \/ rendered.showModal # jackEffect.showModal

(* Cleanup of the previous scroll-jack effect, if it registered listeners. *)
JackCleanup(ov) == IF jackEffect.reg THEN "auto" ELSE ov

(* Body of the scroll-jack effect for the rendered heroState: the overflow *)
(* it leaves, given the overflow ov it finds.                              *)
JackOverflow(ov) ==
    IF scrollY > Threshold THEN "auto"
    ELSE IF rendered.heroState = "initial" THEN "hidden"
    ELSE ov

JackRegisters == ~(scrollY > Threshold)

(* Lines 643-648: the listeners after the scroll-jack effect's cleanup and *)
(* body.                                                                  *)
JackListeners(l) ==
    IF JackRegisters
      THEN Add(Add(JackRemoves(l), "handleInput.wheel"), "handleInput.touchmove")
      ELSE JackRemoves(l)

(* Lines 612-613: the listeners after the reset effect's cleanup and body. *)
ResetListeners(l) == Add(ResetRemoves(l), "handleScrollReset")

RunJackEffect ==
    /\ overflow' = JackOverflow(JackCleanup(overflow))
    /\ jackEffect' = [ran |-> TRUE, reg |-> JackRegisters,
                      heroState |-> rendered.heroState,
                      showModal |-> rendered.showModal]

RunResetEffect ==
    resetEffect' = [ran |-> TRUE, heroState |-> rendered.heroState]

(* First pass of effects after the first render. *)
Mount ==
    /\ ~Mounted
    /\ modalTimer' = "pending"
    /\ RunResetEffect
    /\ RunJackEffect
    /\ listeners' = JackListeners(ResetListeners(listeners))
    /\ ev' = Event("mount", 0)
    /\ UNCHANGED <<scrollY, heroState, showModal, rendered, timers, sceneVars,
                   restVars, appTorn>>

(* A re-render: the hook state becomes the rendered output.  React flushes *)
(* the pending passive effects of the previous render before it renders.   *)
Render ==
    /\ Alive
    /\ ~EffectsPending
    /\ rendered # [heroState |-> heroState, showModal |-> showModal]
    /\ rendered' = [heroState |-> heroState, showModal |-> showModal]
    /\ ev' = Event("render", 0)
    /\ UNCHANGED <<scrollY, heroState, showModal, resetEffect, jackEffect,
                   overflow, timers, modalTimer, sceneVars, restVars, appTorn, listeners>>

(* The pass of passive effects after a re-render. *)
FlushEffects ==
    /\ Alive
    /\ EffectsPending
    /\ IF rendered.heroState # resetEffect.heroState
         THEN /\ RunResetEffect
              /\ listeners' = JackListeners(ResetListeners(listeners))
         ELSE /\ UNCHANGED resetEffect
              /\ listeners' = JackListeners(listeners)
    /\ RunJackEffect
    /\ ev' = Event("effects", 0)
    /\ UNCHANGED <<scrollY, heroState, showModal, rendered, timers, modalTimer,
                   sceneVars, restVars, appTorn>>

(* Does a wheel / touchmove event reach line 635? *)
StartsTransitionAnyDelta(type, deltaY) ==
    /\ jackEffect.reg
    /\ ~jackEffect.showModal
    /\ jackEffect.heroState = "initial"

StartsTransition(type, deltaY) ==
    /\ jackEffect.reg
    /\ ~jackEffect.showModal
    /\ jackEffect.heroState = "initial"
    /\ ~(type = "wheel" /\ deltaY <= 0)

handleInput(type, deltaY) ==
    IF StartsTransition(type, deltaY)
      THEN /\ heroState' = "transitioning"
           /\ timers' = timers + 1
      ELSE UNCHANGED <<heroState, timers>>

Input(type, deltaY) ==
    /\ Alive
    /\ StartsTransition(type, deltaY) => timers < MaxTimers
    /\ handleInput(type, deltaY)
    /\ ev' = Event(type, deltaY)
    /\ UNCHANGED <<scrollY, showModal, rendered, resetEffect, jackEffect,
                   overflow, modalTimer, sceneVars, restVars, appTorn, listeners>>

Wheel == \E d \in WheelDeltas : Input("wheel", d)

TouchMove == Input("touchmove", 0)

(* React has nothing left to do: the hook state is rendered and the effects *)
(* of that render have run.                                                *)
Settled ==
    /\ ~EffectsPending
    /\ rendered = [heroState |-> heroState, showModal |-> showModal]

(* The callback of a 1500 ms timer.  1500 ms is far longer than a re-render *)
(* and its pass of effects take, so the callback runs on a settled tree.    *)
(* Nothing clears the timer: after the unmount of App its callback still    *)
(* runs, and setHeroState then does nothing.                                *)
TimerFires ==
    /\ timers > 0
    /\ appTorn \/ Settled
    /\ timers' = timers - 1
    /\ heroState' = IF appTorn THEN heroState ELSE "swapped"
    /\ overflow' = "auto"
    /\ ev' = Event("timer", 0)
    /\ UNCHANGED <<scrollY, showModal, rendered, resetEffect, jackEffect,
                   modalTimer, sceneVars, restVars, appTorn, listeners>>

handleScrollReset(y) ==
    IF resetEffect.ran /\ y < Threshold /\ resetEffect.heroState = "swapped"
      THEN heroState' = "initial"
      ELSE UNCHANGED heroState

(* The user scrolls the page to offset y; the window scroll event follows. *)
(* A body with overflow hidden does not scroll.                            *)
Scroll ==
    \E y \in ScrollYs :
        /\ Alive
        /\ y # scrollY
        /\ overflow # "hidden"
        /\ scrollY' = y
        /\ handleScrollReset(y)
        /\ ev' = Event("scroll", 0)
        /\ UNCHANGED <<showModal, rendered, resetEffect, jackEffect, overflow,
                       timers, modalTimer, sceneVars, restVars, appTorn, listeners>>

ModalTimerFires ==
    /\ modalTimer = "pending"
    /\ modalTimer' = "done"
    /\ showModal' = TRUE
    /\ ev' = Event("modalTimer", 0)
    /\ UNCHANGED <<scrollY, heroState, rendered, resetEffect, jackEffect,
                   overflow, timers, sceneVars, restVars, appTorn, listeners>>

(* onClose of the rendered AnnouncementModal. *)
CloseModal ==
    /\ ~appTorn
    /\ rendered.showModal
    /\ showModal' = FALSE
    /\ ev' = Event("closeModal", 0)
    /\ UNCHANGED <<scrollY, heroState, rendered, resetEffect, jackEffect,
                   overflow, timers, modalTimer, sceneVars, restVars, appTorn, listeners>>

(* App is unmounted: the cleanups of its three effects run (lines 592, 613 *)
(* and 646-650).  No cleanup clears the 1500 ms timers.                    *)
AppUnmount ==
    /\ Alive
    /\ appTorn' = TRUE
    /\ modalTimer' = IF modalTimer = "pending" THEN "cleared" ELSE modalTimer
    /\ listeners' = JackRemoves(ResetRemoves(listeners))
    /\ overflow' = JackCleanup(overflow)
    /\ ev' = Event("unmount", 0)
    /\ UNCHANGED <<scrollY, heroState, showModal, rendered, resetEffect,
                   jackEffect, timers, sceneVars, restVars>>

----------------------------------------------------------------------------
(* Part 2: ParticleMorphScene, the scroll-progress mapper *)

Abs(n) == IF n < 0 THEN -n ELSE n
Sign(n) == IF n < 0 THEN -1 ELSE IF n > 0 THEN 1 ELSE 0

RECURSIVE Gcd(_, _)
Gcd(a, b) == IF b = 0 THEN a ELSE Gcd(b, a % b)

(* The JavaScript quotient n / d of two integers: the fraction in lowest    *)
(* terms with a positive denominator; <<1, 0>> and <<-1, 0>> are Infinity  *)
(* and -Infinity, <<0, 0>> is NaN.                                          *)
Quotient(n, d) ==
    IF d = 0 THEN <<Sign(n), 0>>
    ELSE LET g == Gcd(Abs(n), Abs(d))
         IN  <<(Sign(d) * n) \div g, Abs(d) \div g>>

IsNaN(f) == f = <<0, 0>>

(* Math.min(1, f) *)
Min1(f) ==
    IF IsNaN(f) THEN f
    ELSE IF f[1] > f[2] THEN <<1, 1>>
    ELSE f

(* Math.max(0, f) *)
Max0(f) ==
    IF IsNaN(f) THEN f
    ELSE IF f[1] < 0 THEN <<0, 1>>
    ELSE f

(* Line 497: Math.max(0, Math.min(1, -rect.top / totalDistance)) *)
ScrollProgressUnclamped(top, totalDistance) == Quotient(-top, totalDistance)
ScrollProgressWrongSign(top, totalDistance) ==
    Max0(Min1(Quotient(top, totalDistance)))
ScrollProgress(top, totalDistance) == Max0(Min1(Quotient(-top, totalDistance)))

(* Lines 484 and 495: the quotient is evaluated only behind this test. *)
ScrollableAlways(totalDistance) == TRUE
Scrollable(totalDistance) == totalDistance > 0

onScroll(c, viewportHeight) ==
    IF ~c.present
      THEN /\ divided' = FALSE
           /\ UNCHANGED targetScrollProgress
      ELSE LET totalDistance == c.height - viewportHeight
           IN  IF Scrollable(totalDistance)
                 THEN /\ divided' = TRUE
                      /\ targetScrollProgress' = ScrollProgress(c.top, totalDistance)
                 ELSE /\ divided' = FALSE
                      /\ UNCHANGED targetScrollProgress

Containers ==
    {[present |-> FALSE, top |-> 0, height |-> 0]} \cup
    [present : {TRUE}, top : -MaxHeight .. MaxViewport, height : 0 .. MaxHeight]

(* A window scroll event reaching the scene's listener, with the geometry *)
(* the listener then reads.                                               *)
SceneScroll ==
    \E c \in Containers, h \in 1 .. MaxViewport :
        /\ container' = c
        /\ innerHeight' = h
        /\ onScroll(c, h)
        /\ ev' = Event("scroll", 0)
        /\ UNCHANGED <<heroVars, restVars>>

----------------------------------------------------------------------------
(* Part 3: PixelBackground *)

(* window.requestAnimationFrame / cancelAnimationFrame *)
RequestFrame(q, owner) == q \cup {[id |-> rafNext, owner |-> owner]}
CancelFrame(q, id) == {r \in q : r.id # id}

(* Math.floor(a / b) for b > 0 *)
Floor(a, b) == a \div b

(* The JavaScript remainder a % m: it has the sign of a. *)
JsRem(a, m) == IF a >= 0 THEN a % m ELSE -((-a) % m)

(* Math.sin in fixed point.  The angle is a number of hundredths of a      *)
(* radian, the result a number of thousandths, by Bhaskara's rational      *)
(* approximation on each half period.                                      *)
SinMilli(a) ==
    LET r == a % TwoPiCenti
        h == IF r < PiCenti THEN r ELSE r - PiCenti
        q == h * (PiCenti - h)
        v == (4000 * q) \div ((5 * PiCenti * PiCenti) \div 4 - q)
    IN  IF r < PiCenti THEN v ELSE -v

(* s * 43758.5453 for s in thousandths, in thousandths, rounded to zero *)
TimesHash(s) == Sign(s) * (Abs(s) * 43758 + (Abs(s) * 5453) \div 10000)

(* Line 21, in thousandths *)
pseudoRandomSigned(x, y) ==
    JsRem(TimesHash(SinMilli(x * 1299 + y * 7823)), NoiseScale)
pseudoRandom(x, y) ==
    JsRem(Abs(TimesHash(SinMilli(x * 1299 + y * 7823))), NoiseScale)

(* Lines 149 and 189: the template string `${x},${y}`, tabulated for the   *)
(* coordinates the model uses.                                             *)
KeyRange == -(BrushRadius + MaxCoord) .. (Cols + Rows + BrushRadius + MaxCoord)
KeyTable == [c \in KeyRange \X KeyRange |-> ToString(c[1]) \o "," \o ToString(c[2])]
Key(x, y) == KeyTable[<<x, y>>]

EmptyMap == [k \in {} |-> 0]
MapSet(m, k, v) == [j \in DOMAIN m \cup {k} |-> IF j = k THEN v ELSE m[j]]

(* Line 201: a touched cell.  n is the noise in thousandths, t the stored  *)
(* intensity in 1/Levels, currentScroll the offset in pixels.              *)
TouchedIndex(n, t, currentScroll) ==
    Floor((n * Levels * 1000 + t * NoiseScale * 1000
             + currentScroll * NoiseScale * Levels) * (PaletteLength - 2),
          NoiseScale * Levels * 1000) + 2

(* Line 203: an untouched cell, Math.floor(noiseVal * palette.length * 1.5) *)
UntouchedIndex(n) == Floor(n * PaletteLength * 3, NoiseScale * 2)

(* Line 206 *)
WrapIndexOff(i) == i
WrapIndex(i) == IF i >= PaletteLength THEN 0 ELSE i

Blank == [touched |-> FALSE, touchMod |-> 0, noiseX |-> 0, noiseY |-> 0,
          noiseVal |-> 0, rawIndex |-> 0, colorIndex |-> 0, painted |-> FALSE,
          fallback |-> FALSE]

(* Lines 189-211: the body of the cell loop for cell (x, y). *)
RenderCell(x, y, currentScroll, map) ==
    LET key == Key(x, y)
        isTouched == key \in DOMAIN map
        scrollFactor == Floor(currentScroll, 4)
        n == pseudoRandom(x, y + scrollFactor)
        touchMod == IF isTouched THEN map[key] ELSE 0
        rawIndex == IF isTouched THEN TouchedIndex(n, touchMod, currentScroll)
                                 ELSE UntouchedIndex(n)
        colorIndex == WrapIndex(rawIndex)
        painted == colorIndex > 1 \/ isTouched
    IN  [touched |-> isTouched, touchMod |-> touchMod, noiseX |-> x,
         noiseY |-> y + scrollFactor, noiseVal |-> n, rawIndex |-> rawIndex,
         colorIndex |-> colorIndex, painted |-> painted,
         fallback |-> painted /\ colorIndex \notin 0 .. PaletteLength - 1]

GridCells == (0 .. Cols - 1) \X (0 .. Rows - 1)

(* Lines 170-215: render paints every cell of the grid. *)
render == canvas' = [c \in GridCells |-> RenderCell(c[1], c[2], scrollRef, touchedPixels)]

(* Math.random() for the brush cell at offset (dx, dy): the intensities of *)
(* one pointer move follow one of Levels patterns.                         *)
Intensity(seed, dx, dy) == (seed + dx + 2 * dy) % Levels

(* Line 148 *)
InBrushSquare(dx, dy) == TRUE
InBrush(dx, dy) == dx * dx + dy * dy <= BrushRadius * BrushRadius

BrushOffsets ==
    {d \in (-BrushRadius .. BrushRadius) \X (-BrushRadius .. BrushRadius) :
        InBrush(d[1], d[2])}

(* Lines 146-153: the map after the brush loop.  The loop sets the key of  *)
(* each offset of the brush once.                                          *)
Paint(map, gridX, gridY, seed) ==
    LET set == {<<Key(gridX + d[1], gridY + d[2]), Intensity(seed, d[1], d[2])>> :
                    d \in BrushOffsets}
        keys == {e[1] : e \in set}
    IN  [k \in DOMAIN map \cup keys |->
            IF k \in keys THEN (CHOOSE e \in set : e[1] = k)[2] ELSE map[k]]

(* Lines 133-154, for a pointer at (clientX, clientY); the canvas is fixed *)
(* at the viewport's top left corner.                                      *)
handleMouseMove(clientX, clientY, seed) ==
    touchedPixels' = Paint(touchedPixels, Floor(clientX, CellSize),
                           Floor(clientY, CellSize), seed)

PointerXs == {0, Cols * CellSize - 1}
BgScrollYs == {0, MaxScrollY}

(* Both effects of PixelBackground on mount: the listeners, and the first  *)
(* call of render, which requests the next frame.                          *)
BgMount ==
    /\ bgStatus = "unmounted"
    /\ rafNext <= MaxFrames
    /\ bgStatus' = "mounted"
    /\ listeners' = Add(Add(listeners, "bg.handleScroll"), "bg.handleMouseMove")
    /\ render
    /\ raf' = RequestFrame(raf, "bg")
    /\ bgFrameId' = rafNext
    /\ rafNext' = rafNext + 1
    /\ ev' = Event("bgMount", 0)
    /\ UNCHANGED <<scrollY, heroState, showModal, rendered, resetEffect,
                   jackEffect, overflow, timers, modalTimer, appTorn>>
    /\ UNCHANGED <<sceneVars, late, scrollRef, touchedPixels, loopVars,
                   morphVars, cell, cuVars>>

(* The browser runs a pending callback of the render loop. *)
BgFrame ==
    \E r \in raf :
        /\ r.owner = "bg"
        /\ rafNext <= MaxFrames
        /\ render
        /\ raf' = RequestFrame(raf \ {r}, "bg")
        /\ bgFrameId' = rafNext
        /\ rafNext' = rafNext + 1
        /\ late' = IF bgStatus = "torn" THEN late \cup {"bg"} ELSE late
        /\ ev' = Event("bgFrame", 0)
        /\ UNCHANGED <<heroVars, sceneVars, bgStatus, scrollRef, touchedPixels,
                       loopVars, morphVars, cell, cuVars>>

(* Cleanup of both effects. *)
BgTeardown ==
    /\ bgStatus = "mounted"
    /\ bgStatus' = "torn"
    /\ listeners' = Remove(Remove(listeners, "bg.handleScroll"), "bg.handleMouseMove")
    /\ raf' = CancelFrame(raf, bgFrameId)
    /\ ev' = Event("bgTeardown", 0)
    /\ UNCHANGED <<scrollY, heroState, showModal, rendered, resetEffect,
                   jackEffect, overflow, timers, modalTimer, appTorn>>
    /\ UNCHANGED <<sceneVars, rafNext, late, bgFrameId, scrollRef, touchedPixels,
                   canvas, loopVars, morphVars, cell, cuVars>>

(* A window scroll event reaching handleScroll (line 129). *)
BgScroll ==
    \E y \in BgScrollYs :
        /\ listeners["bg.handleScroll"] > 0
        /\ scrollRef' = y
        /\ ev' = Event("bgScroll", 0)
        /\ UNCHANGED <<heroVars, sceneVars, rafVars, bgStatus, bgFrameId,
                       touchedPixels, canvas, loopVars, morphVars, cell, cuVars>>

(* A mousemove event reaching handleMouseMove. *)
MouseMove ==
    \E x \in PointerXs, seed \in 0 .. Levels - 1 :
        /\ listeners["bg.handleMouseMove"] > 0
        /\ handleMouseMove(x, 0, seed)
        /\ ev' = [type |-> "mousemove", deltaY |-> 0, clientX |-> x,
                  clientY |-> 0, seed |-> seed]
        /\ UNCHANGED <<heroVars, sceneVars, rafVars, bgStatus, bgFrameId,
                       scrollRef, canvas, loopVars, morphVars, cell, cuVars>>

(* The cell loop's body on one cell, for any coordinates, offset and touch. *)
PaintCell ==
    \E x \in -MaxCoord .. MaxCoord, y \in -MaxCoord .. MaxCoord,
       currentScroll \in ScrollYs, t \in -1 .. Levels - 1 :
        /\ cell' = RenderCell(x, y, currentScroll,
                              IF t < 0 THEN EmptyMap ELSE MapSet(EmptyMap, Key(x, y), t))
        /\ ev' = [type |-> "paint", deltaY |-> 0, x |-> x, y |-> y,
                  currentScroll |-> currentScroll]
        /\ UNCHANGED <<heroVars, sceneVars, rafVars, bgVars, loopVars, morphVars,
                       cuVars>>

----------------------------------------------------------------------------
(* Part 3, continued: the frame loop of ParticleMorphScene *)

(* Arithmetic of finite fractions, over the least common denominator *)
Lcm(a, b) == (a \div Gcd(a, b)) * b
Plus(f, g) ==
    LET l == Lcm(f[2], g[2])
    IN  Quotient(f[1] * (l \div f[2]) + g[1] * (l \div g[2]), l)
Minus(f, g) == Plus(f, <<-g[1], g[2]>>)
Times(f, g) ==
    LET a == Gcd(Abs(f[1]), g[2])
        b == Gcd(Abs(g[1]), f[2])
    IN  Quotient((f[1] \div a) * (g[1] \div b), (f[2] \div b) * (g[2] \div a))
Less(f, g) ==
    LET l == Lcm(f[2], g[2])
    IN  f[1] * (l \div f[2]) < g[1] * (l \div g[2])
Whole(n) == <<n, 1>>

(* Line 438: scrollProgress += (target - scrollProgress) * 0.05 *)
DampOvershoot(d, target) == Plus(d, Times(Minus(target, d), <<21, 20>>))
Damp(d, target) == Plus(d, Times(Minus(target, d), <<1, 20>>))

(* The largest multiple of 1/ProgressSteps that is at most f *)
Coarse(f) == Quotient((f[1] * ProgressSteps) \div f[2], ProgressSteps)

(* Lines 450-451 *)
LocalProgressDoubleDelay(sp, delay) ==
    Max0(Min1(Minus(Times(sp, <<3, 2>>), Times(delay, <<2, 1>>))))
LocalProgress(sp, delay) ==
    Max0(Min1(Minus(Times(sp, <<3, 2>>), Times(delay, <<1, 2>>))))

(* Line 452 *)
Ease(lp) ==
    IF Less(lp, <<1, 2>>)
      THEN Times(Whole(2), Times(lp, lp))
      ELSE Plus(Whole(-1), Times(Minus(Whole(4), Times(Whole(2), lp)), lp))

(* Vector3.lerpVectors(v1, v2, alpha), per component: v1 + (v2 - v1) * alpha *)
LerpFromEnd(v1, v2, alpha) ==
    [i \in 1 .. 3 |-> Plus(Whole(v2[i]), Times(Whole(v1[i] - v2[i]), alpha))]
Lerp(v1, v2, alpha) ==
    [i \in 1 .. 3 |-> Plus(Whole(v1[i]), Times(Whole(v2[i] - v1[i]), alpha))]

(* Math.sin(t * Math.PI) * 0.5 for t = a/b in [0, 1], by Bhaskara's         *)
(* approximation sin(pi t) = 16 t (1 - t) / (5 - 4 t (1 - t)), which is     *)
(* exact at 0, 1/2 and 1.                                                  *)
HalfSinPi(t) ==
    LET a == t[1]
        b == t[2]
    IN  Quotient(8 * a * (b - a), 5 * b * b - 4 * a * (b - a))

(* Lines 450-459 for one particle: the new position and scale of its mesh *)
UpdateParticle(p, sp) ==
    LET localProgress == LocalProgress(sp, p.delay)
        t == Ease(localProgress)
    IN  [position |-> Lerp(p.startPos, p.endPos, t),
         scale |-> Plus(Whole(1), HalfSinPi(t)),
         localProgress |-> localProgress,
         t |-> t]

(* Lines 417-426: the particles init can create.  delay = Math.random()*0.5 *)
Coordinates == {-MaxPos, MaxPos}
Delays == {Quotient(j, 2 * DelaySteps) : j \in 0 .. DelaySteps - 1}
Particles ==
    [delay : Delays,
     startPos : {<<c, c, c>> : c \in Coordinates},
     endPos : {<<MaxPos, 0, -MaxPos>>, <<0, MaxPos, MaxPos>>}]
NoParticle == [delay |-> <<0, 1>>, startPos |-> <<0, 0, 0>>, endPos |-> <<0, 0, 0>>]
NoMesh == [position |-> <<<<0, 1>>, <<0, 1>>, <<0, 1>>>>, scale |-> <<1, 1>>,
           localProgress |-> <<0, 1>>, t |-> <<0, 1>>]

(* Lines 434-465 *)
animate(q, p) ==
    /\ raf' = RequestFrame(q, "scene")
    /\ sceneFrameId' = rafNext
    /\ rafNext' = rafNext + 1
    /\ scrollProgress' = Damp(scrollProgress, targetScrollProgress)
    /\ mesh' = UpdateParticle(p, Coarse(scrollProgress'))

(* The effect of ParticleMorphScene on mount: init, which ends by calling  *)
(* animate, and the two listeners.                                         *)
SceneMount ==
    /\ sceneStatus = "unmounted"
    /\ rafNext <= MaxFrames
    /\ sceneStatus' = "mounted"
    /\ \E p \in Particles :
          /\ particle' = p
          /\ animate(raf, p)
    /\ listeners' = Add(Add(listeners, "scene.onResize"), "scene.onScroll")
    /\ ev' = Event("sceneMount", 0)
    /\ UNCHANGED <<scrollY, heroState, showModal, rendered, resetEffect,
                   jackEffect, overflow, timers, modalTimer, appTorn>>
    /\ UNCHANGED <<sceneVars, late, bgVars, cell, cuVars>>

(* The browser runs a pending callback of animate. *)
SceneFrame ==
    \E r \in raf :
        /\ r.owner = "scene"
        /\ rafNext <= MaxFrames
        /\ animate(raf \ {r}, particle)
        /\ late' = IF sceneStatus = "torn" THEN late \cup {"scene"} ELSE late
        /\ ev' = Event("sceneFrame", 0)
        /\ UNCHANGED <<heroVars, sceneVars, bgVars, sceneStatus, particle, cell, cuVars>>

(* Lines 506-517 *)
SceneTeardownNoCancel ==
    /\ sceneStatus = "mounted"
    /\ sceneStatus' = "torn"
    /\ listeners' = Remove(Remove(listeners, "scene.onResize"), "scene.onScroll")
    /\ ev' = Event("sceneTeardown", 0)
    /\ UNCHANGED <<scrollY, heroState, showModal, rendered, resetEffect,
                   jackEffect, overflow, timers, modalTimer, appTorn>>
    /\ UNCHANGED <<sceneVars, rafVars, bgVars, sceneFrameId, scrollProgress,
                   morphVars, cell, cuVars>>
SceneTeardown ==
    /\ sceneStatus = "mounted"
    /\ sceneStatus' = "torn"
    /\ listeners' = Remove(Remove(listeners, "scene.onResize"), "scene.onScroll")
    /\ raf' = CancelFrame(raf, sceneFrameId)
    /\ ev' = Event("sceneTeardown", 0)
    /\ UNCHANGED <<scrollY, heroState, showModal, rendered, resetEffect,
                   jackEffect, overflow, timers, modalTimer, appTorn>>
    /\ UNCHANGED <<sceneVars, rafNext, late, bgVars, sceneFrameId, scrollProgress,
                   morphVars, cell, cuVars>>

(* Geometries that put the target at 0, 1/2 and 1 *)
TargetContainers ==
    {c \in Containers :
        /\ c.present
        /\ c.height = MaxHeight
        /\ c.top \in {0, -((MaxHeight - MaxViewport) \div 2),
                      -(MaxHeight - MaxViewport), -MaxHeight}}

(* A window scroll event reaching onScroll while the scene is mounted. *)
SceneScrollTo ==
    \E c \in TargetContainers :
        /\ listeners["scene.onScroll"] > 0
        /\ container' = c
        /\ innerHeight' = MaxViewport
        /\ onScroll(c, MaxViewport)
        /\ ev' = Event("scroll", 0)
        /\ UNCHANGED <<heroVars, restVars>>

----------------------------------------------------------------------------
(* Part 4: CountUpAnimation *)

(* The values the page passes as end (lines 797-800), and 0 and 1 *)
StatValues == {22, 17, 43, 18000}
Ends == {0, 1} \cup StatValues

(* The time between two frames: multiples of Duration / StepsPerRun, the   *)
(* largest one longer than the whole run.                                  *)
FrameGaps == {k * (Duration \div StepsPerRun) : k \in 1 .. StepsPerRun + 1}

(* The timestamps the browser can pass to the next frame: they increase    *)
(* from frame to frame; the first one can be 0.                            *)
Stamps == IF lastStamp = NoStamp THEN {0} \cup FrameGaps
          ELSE {lastStamp + g : g \in FrameGaps}

(* Line 296: Math.min((timestamp - startTime) / duration, 1), as a number *)
(* of 1/Duration                                                           *)
Progress(timestamp, start) ==
    IF timestamp - start > Duration THEN Duration ELSE timestamp - start

(* Math.pow(2, -x) for x = a / Duration >= 0, in 1/EaseScale: exact for    *)
(* whole x, linear between two whole exponents.                            *)
Pow2Neg(a) ==
    LET n == a \div Duration
        r == a % Duration
    IN  ((EaseScale \div 2 ^ n) * (2 * Duration - r)) \div (2 * Duration)

(* Line 297, in 1/EaseScale *)
EaseValueNoSnap(progress) == EaseScale - Pow2Neg(10 * progress)
EaseValue(progress) ==
    IF progress = Duration THEN EaseScale
    ELSE EaseScale - Pow2Neg(10 * progress)

(* Line 298: Math.floor(easeValue * end) *)
Count(ease, end) == Floor(ease * end, EaseScale)

CuEffectsPending == ~cuEffect.ran \/ cuRendered.hasStarted # cuEffect.hasStarted

(* Lines 288-307: the body of the count effect for the rendered hasStarted *)
RunCountEffect ==
    IF cuRendered.hasStarted
      THEN /\ startTime' = 0
           /\ raf' = RequestFrame(raf, "counter")
           /\ cuFrameId' = rafNext
           /\ rafNext' = rafNext + 1
           /\ starts' = starts + 1
      ELSE UNCHANGED <<startTime, raf, cuFrameId, rafNext, starts>>

(* The component mounts with some end: the observer effect observes the    *)
(* element, the count effect returns at line 289.                          *)
CounterMount ==
    /\ cuStatus = "unmounted"
    /\ cuStatus' = "mounted"
    /\ endProp' \in Ends
    /\ cuEffect' = [ran |-> TRUE, hasStarted |-> cuRendered.hasStarted]
    /\ RunCountEffect
    /\ ev' = Event("counterMount", 0)
    /\ UNCHANGED <<heroVars, sceneVars, late, bgVars, loopVars, morphVars, cell,
                   hasStarted, count, cuRendered, lastStamp>>

(* The IntersectionObserver callback (lines 273-277) *)
Intersect ==
    \E isIntersecting \in BOOLEAN :
        /\ cuStatus = "mounted"
        /\ hasStarted' = IF isIntersecting /\ ~cuEffect.hasStarted
                            THEN TRUE ELSE hasStarted
        /\ ev' = [type |-> "intersect", deltaY |-> 0, isIntersecting |-> isIntersecting]
        /\ UNCHANGED <<heroVars, sceneVars, rafVars, bgVars, loopVars, morphVars,
                       cell, cuStatus, endProp, count, cuRendered, cuEffect,
                       startTime, cuFrameId, lastStamp, starts>>

(* A re-render of the component: the hook state becomes the output. *)
CounterRender ==
    /\ cuStatus = "mounted"
    /\ ~CuEffectsPending
    /\ cuRendered # [hasStarted |-> hasStarted, count |-> count]
    /\ cuRendered' = [hasStarted |-> hasStarted, count |-> count]
    /\ ev' = Event("counterRender", 0)
    /\ UNCHANGED <<heroVars, sceneVars, rafVars, bgVars, loopVars, morphVars,
                   cell, cuStatus, endProp, hasStarted, count, cuEffect,
                   startTime, cuFrameId, lastStamp, starts>>

(* The pass of effects after a render that changed hasStarted: both        *)
(* effects are cleaned up and run again.                                   *)
CounterEffects ==
    /\ cuStatus = "mounted"
    /\ cuEffect.ran
    /\ CuEffectsPending
    /\ cuEffect' = [ran |-> TRUE, hasStarted |-> cuRendered.hasStarted]
    /\ RunCountEffect
    /\ ev' = Event("counterEffects", 0)
    /\ UNCHANGED <<heroVars, sceneVars, late, bgVars, loopVars, morphVars, cell,
                   cuStatus, endProp, hasStarted, count, cuRendered, lastStamp>>

(* Lines 294-303 *)
countAnimate(q, timestamp) ==
    LET start == IF startTime = 0 THEN timestamp ELSE startTime
        progress == Progress(timestamp, start)
    IN  /\ startTime' = start
        /\ count' = Count(EaseValue(progress), endProp)
        /\ IF progress < Duration
             THEN /\ raf' = RequestFrame(q, "counter")
                  /\ cuFrameId' = rafNext
                  /\ rafNext' = rafNext + 1
             ELSE /\ raf' = q
                  /\ UNCHANGED <<cuFrameId, rafNext>>

(* The browser runs the pending callback of the count loop. *)
CounterFrame ==
    \E r \in raf, timestamp \in Stamps :
        /\ r.owner = "counter"
        /\ countAnimate(raf \ {r}, timestamp)
        /\ lastStamp' = timestamp
        /\ late' = IF cuStatus = "torn" THEN late \cup {"counter"} ELSE late
        /\ ev' = [type |-> "counterFrame", deltaY |-> 0, timestamp |-> timestamp]
        /\ UNCHANGED <<heroVars, sceneVars, bgVars, loopVars, morphVars, cell,
                       cuStatus, endProp, hasStarted, cuRendered, cuEffect, starts>>

(* Lines 285 and 306: the cleanups.  The count effect has one only if it   *)
(* ran with hasStarted true.                                               *)
CounterTeardown ==
    /\ cuStatus = "mounted"
    /\ cuStatus' = "torn"
    /\ raf' = IF cuEffect.hasStarted THEN CancelFrame(raf, cuFrameId) ELSE raf
    /\ ev' = Event("counterTeardown", 0)
    /\ UNCHANGED <<heroVars, sceneVars, rafNext, late, bgVars, loopVars, morphVars,
                   cell, endProp, hasStarted, count, cuRendered, cuEffect,
                   startTime, cuFrameId, lastStamp, starts>>

----------------------------------------------------------------------------
(* Specifications *)

OtherInit ==
    /\ scrollY \in ScrollYs
    /\ heroState = InitialHeroState(scrollY)
    /\ showModal = FALSE
    /\ rendered = [heroState |-> heroState, showModal |-> FALSE]
    /\ resetEffect = [ran |-> FALSE, heroState |-> heroState]
    /\ jackEffect = [ran |-> FALSE, reg |-> FALSE, heroState |-> heroState,
                     showModal |-> FALSE]
    /\ overflow = ""
    /\ timers = 0
    /\ modalTimer = "none"
    /\ ev = Event("init", 0)
    /\ container = [present |-> TRUE, top |-> 0, height |-> 0]
    /\ innerHeight = 1
    /\ divided = FALSE
    /\ appTorn = FALSE
    /\ late = {}
    /\ bgStatus = "unmounted"
    /\ bgFrameId = 0
    /\ scrollRef = 0
    /\ touchedPixels = EmptyMap
    /\ canvas = [c \in GridCells |-> Blank]
    /\ cell = Blank
    /\ cuStatus = "unmounted"
    /\ endProp = 0
    /\ hasStarted = FALSE
    /\ count = 0
    /\ cuRendered = [hasStarted |-> FALSE, count |-> 0]
    /\ cuEffect = [ran |-> FALSE, hasStarted |-> FALSE]
    /\ startTime = 0
    /\ cuFrameId = 0
    /\ lastStamp = NoStamp
    /\ starts = 0

(* The state after construction: nothing is mounted yet. *)
Init ==
    /\ OtherInit
    /\ targetScrollProgress = <<0, 1>>
    /\ listeners = [h \in Handlers |-> 0]
    /\ raf = {}
    /\ rafNext = 1
    /\ sceneStatus = "unmounted"
    /\ sceneFrameId = 0
    /\ scrollProgress = <<0, 1>>
    /\ particle = NoParticle
    /\ mesh = NoMesh

(* The particle scene mounted and at rest: the damped progress has reached *)
(* its target, a multiple of 1/ProgressSteps, and the next frame is        *)
(* pending.                                                                *)
MorphInit ==
    /\ OtherInit
    /\ scrollY = 0
    /\ listeners = [h \in Handlers |->
                      IF h \in {"scene.onResize", "scene.onScroll"} THEN 1 ELSE 0]
    /\ raf = {[id |-> 1, owner |-> "scene"]}
    /\ rafNext = 2
    /\ sceneStatus = "mounted"
    /\ sceneFrameId = 1
    /\ \E k \in 0 .. ProgressSteps, p \in Particles :
          /\ targetScrollProgress = Quotient(k, ProgressSteps)
          /\ scrollProgress = Quotient(k, ProgressSteps)
          /\ particle = p
          /\ mesh = UpdateParticle(p, Quotient(k, ProgressSteps))

Next ==
    \/ Mount
    \/ Render
    \/ FlushEffects
    \/ Wheel
    \/ TouchMove
    \/ TimerFires
    \/ Scroll
    \/ ModalTimerFires
    \/ CloseModal

Spec == Init /\ [][Next]_vars

(* Timers fire, and React renders and flushes effects, when they are due. *)
FairSpec ==
    /\ Spec
    /\ WF_vars(TimerFires)
    /\ WF_vars(Render)
    /\ WF_vars(FlushEffects)
    /\ WF_vars(Mount)

SceneNext == SceneScroll

PaintNext == PaintCell

PaintInit == Init /\ scrollY = 0

PaintSpec == PaintInit /\ [][PaintNext]_vars

BgNext == BgMount \/ BgFrame \/ BgTeardown \/ BgScroll \/ MouseMove

BgSpec == Init /\ [][BgNext]_vars

LoopNext ==
    \/ BgMount
    \/ BgFrame
    \/ BgTeardown
    \/ SceneMount
    \/ SceneFrame
    \/ SceneTeardown

LoopSpec == Init /\ [][LoopNext]_vars

DampNext == SceneMount \/ SceneFrame \/ SceneTeardown \/ SceneScrollTo

DampSpec == Init /\ [][DampNext]_vars

MorphNext == SceneFrame

MorphSpec == MorphInit /\ [][MorphNext]_vars

(* The life of the page.  PixelBackground and ParticleMorphScene are       *)
(* children of App (lines 661 and 1004): React runs their effects before   *)
(* those of App on mount, and their cleanups after those of App on         *)
(* unmount.                                                                *)
ChildMountBg == ~Mounted /\ BgMount
ChildMountScene == ~Mounted /\ bgStatus = "mounted" /\ SceneMount
AppMount == sceneStatus = "mounted" /\ Mount
ChildTeardownBg == appTorn /\ BgTeardown
ChildTeardownScene == appTorn /\ bgStatus = "torn" /\ SceneTeardown

LifeNext ==
    \/ ChildMountBg
    \/ ChildMountScene
    \/ AppMount
    \/ Render
    \/ FlushEffects
    \/ Wheel
    \/ TouchMove
    \/ TimerFires
    \/ Scroll
    \/ ModalTimerFires
    \/ CloseModal
    \/ AppUnmount
    \/ ChildTeardownBg
    \/ ChildTeardownScene

LifeSpec == Init /\ [][LifeNext]_vars

CounterNext ==
    \/ CounterMount
    \/ Intersect
    \/ CounterRender
    \/ CounterEffects
    \/ CounterFrame
    \/ CounterTeardown

CounterInit == Init /\ scrollY = 0

(* The browser runs a pending frame callback, and React renders and runs   *)
(* the effects, when they are due.                                         *)
CounterSpec ==
    /\ CounterInit
    /\ [][CounterNext]_vars
    /\ WF_vars(CounterFrame)
    /\ WF_vars(CounterRender)
    /\ WF_vars(CounterEffects)

SceneSpec == Init /\ [][SceneNext]_vars

----------------------------------------------------------------------------
(* Claims about the hero state machine *)

ModalShown == rendered.showModal

IsInput(e) == e.type \in {"wheel", "touchmove"}
IsDownwardInput(e) == e.type = "touchmove" \/ (e.type = "wheel" /\ e.deltaY > 0)

(* The scroll-jack effect has run for the current hook state. *)
EffectRanForState ==
    /\ Mounted
    /\ Settled
    /\ jackEffect.heroState = heroState

(* C1: in a state with heroState 'initial', scroll offset below 50 and no   *)
(* modal shown, the next downward wheel or touchmove event sets heroState  *)
(* to 'transitioning'; and a 'transitioning' hero eventually is 'swapped'. *)
C1_Claim ==
    /\ [][(/\ heroState = "initial"
           /\ scrollY < Threshold
           /\ ~ModalShown /\ ~showModal
           /\ IsDownwardInput(ev')) => heroState' = "transitioning"]_vars
    /\ (heroState = "transitioning" ~> heroState = "swapped")

(* C2: while heroState is 'transitioning' the body overflow is 'hidden',   *)
(* and the lock is given up only by the timer step that sets 'swapped'.    *)
C2_Claim ==
    /\ [](heroState = "transitioning" => overflow = "hidden")
    /\ [][(overflow = "hidden" /\ overflow' # "hidden")
            => (ev'.type = "timer" /\ heroState' = "swapped")]_vars

(* C3: whenever heroState is 'initial' and the scroll-jack effect has run  *)
(* for that state, the body overflow is 'hidden'.                          *)
C3_Claim ==
    (heroState = "initial" /\ EffectRanForState) => overflow = "hidden"

(* C4: heroState changes only along initial -> transitioning -> swapped -> *)
(* initial: to 'transitioning' by an input, to 'swapped' by a timer, to    *)
(* 'initial' by the scroll reset.                                          *)
C4_Claim ==
    [][heroState' # heroState =>
        \/ heroState = "initial" /\ heroState' = "transitioning" /\ IsInput(ev')
        \/ heroState = "transitioning" /\ heroState' = "swapped" /\ ev'.type = "timer"
        \/ heroState = "swapped" /\ heroState' = "initial" /\ ev'.type = "scroll"]_vars

(* C5: a wheel event with deltaY <= 0 received while heroState is          *)
(* 'initial' changes neither heroState, nor the pending timers, nor the    *)
(* body overflow.                                                          *)
C5_WheelUpIgnored ==
    [][(heroState = "initial" /\ ev'.type = "wheel" /\ ev'.deltaY <= 0)
        => (heroState' = "initial" /\ timers' = timers /\ overflow' = overflow)]_vars

(* C5 witness: an upward wheel event has just been handled by a listener   *)
(* that a downward one would have sent into the transition.                *)
C5_Witness ==
    /\ ev.type = "wheel" /\ ev.deltaY < 0
    /\ heroState = "initial"
    /\ StartsTransition("wheel", 100)
    /\ timers = 0

(* C6: a scroll event changes heroState exactly when heroState is          *)
(* 'swapped' and the new offset is below 50, and then to 'initial'; no     *)
(* other event sets heroState to 'initial'.                                *)
C6_Claim ==
    [][/\ ev'.type = "scroll" =>
            /\ (heroState' # heroState)
                  <=> (heroState = "swapped" /\ scrollY' < Threshold)
            /\ (heroState' # heroState) => heroState' = "initial"
       /\ (heroState' = "initial" /\ heroState # "initial")
            => ev'.type = "scroll"]_vars

(* C7: while the announcement modal is shown, a wheel or touchmove event   *)
(* changes neither heroState nor the pending timers.                       *)
C7_Claim ==
    [][(ModalShown /\ IsInput(ev'))
        => (heroState' = heroState /\ timers' = timers)]_vars

----------------------------------------------------------------------------
(* Claims about the scroll-progress mapper *)

(* p is num / den clamped to [0, 1], for den > 0. *)
IsClamped(p, num, den) ==
    /\ num <= 0 => p = <<0, 1>>
    /\ num >= den => p = <<1, 1>>
    /\ (0 < num /\ num < den) => (p[2] > 0 /\ p[1] * den = num * p[2])

AfterSceneScroll == ev.type = "scroll" /\ container.present

(* C8 as stated: after a scroll event with containerHeight >               *)
(* viewportHeight the target progress is                                   *)
(* clamp((viewportHeight - top) / (containerHeight - viewportHeight), 0, 1). *)
C8_Claim ==
    (AfterSceneScroll /\ container.height > innerHeight) =>
        IsClamped(targetScrollProgress, innerHeight - container.top,
                  container.height - innerHeight)

(* C8 amended: after a scroll event with containerHeight > viewportHeight  *)
(* the target progress is                                                  *)
(* clamp(-top / (containerHeight - viewportHeight), 0, 1).                 *)
C8_Amended ==
    (AfterSceneScroll /\ container.height > innerHeight) =>
        IsClamped(targetScrollProgress, -container.top,
                  container.height - innerHeight)

(* C8 witness: a scroll event has set a target strictly between 0 and 1    *)
(* that is not a half.                                                     *)
C8_Witness ==
    /\ AfterSceneScroll /\ divided
    /\ container.height > innerHeight
    /\ 0 < -container.top /\ -container.top < container.height - innerHeight
    /\ targetScrollProgress = <<2, 3>>

(* C9: for a container of height 5 x viewportHeight the target is 1/2 at   *)
(* top = -2 x viewportHeight and 0 at top = 0; for any container taller    *)
(* than the viewport it is 1 for every top <= -(height - viewportHeight).  *)
C9_MapperValues ==
    AfterSceneScroll =>
        /\ (container.height = 5 * innerHeight /\ container.top = -2 * innerHeight)
              => targetScrollProgress = <<1, 2>>
        /\ (container.height = 5 * innerHeight /\ container.top = 0)
              => targetScrollProgress = <<0, 1>>
        /\ (container.height > innerHeight
              /\ container.top <= -(container.height - innerHeight))
              => targetScrollProgress = <<1, 1>>

(* C9 witness: the scroll event at top = -2 x viewportHeight of a          *)
(* container of height 5 x viewportHeight has been handled.                *)
C9_Witness ==
    /\ AfterSceneScroll /\ divided
    /\ container.height = 5 * innerHeight
    /\ container.top = -2 * innerHeight
    /\ targetScrollProgress = <<1, 2>>

(* C10: a scroll event with no container, or with containerHeight -        *)
(* viewportHeight <= 0, leaves the target progress as it was and evaluates *)
(* no quotient; and the target progress always is a number in [0, 1].      *)
C10_ShortContainer ==
    /\ [][(ev'.type = "scroll"
            /\ (~container'.present \/ container'.height - innerHeight' <= 0))
           => (targetScrollProgress' = targetScrollProgress /\ ~divided')]_vars
    /\ [](/\ targetScrollProgress[2] > 0
          /\ 0 <= targetScrollProgress[1]
          /\ targetScrollProgress[1] <= targetScrollProgress[2])

(* C10 witness: a scroll event on a container no taller than the viewport  *)
(* has left an earlier target of 1/2 in place.                             *)
C10_Witness ==
    /\ AfterSceneScroll /\ ~divided
    /\ container.height <= innerHeight
    /\ targetScrollProgress = <<1, 2>>


IsPaint == ev.type = "paint"

(* C14: every touched cell is painted with a palette index in 2..10, never *)
(* with one of the background shades 0 and 1, for any noise in [0,1), any  *)
(* stored intensity in [0,1) and any scroll offset >= 0.                   *)
C14_Claim == (IsPaint /\ cell.touched) => cell.colorIndex \in 2 .. PaletteLength - 1

C20_IndexInPalette ==
    IsPaint =>
        /\ cell.colorIndex \in 0 .. PaletteLength - 1
        /\ cell.rawIndex >= PaletteLength => cell.colorIndex = 0
        /\ cell.rawIndex < PaletteLength => cell.colorIndex = cell.rawIndex
        /\ ~cell.fallback
        /\ (~cell.touched /\ cell.painted) => cell.colorIndex \in 2 .. PaletteLength - 1
        /\ (~cell.touched /\ ~cell.painted) => cell.colorIndex \in 0 .. 1

C20_Witness ==
    /\ IsPaint
    /\ ~cell.touched
    /\ cell.rawIndex >= PaletteLength
    /\ cell.colorIndex = 0
    /\ ~cell.painted
    /\ ev.currentScroll > 0

(* The cells a brush can reach from a pointer on the grid *)
Reach == (-BrushRadius .. Cols + BrushRadius) \X (-BrushRadius .. Rows + BrushRadius)

(* C13: a pointer move writes its intensity to every cell its brush covers *)
(* and leaves every other entry as it was; no other step changes the map,  *)
(* so no entry is ever removed; a frame's lookup of a cell returns the     *)
(* stored intensity, that of the most recent move that covered the cell.   *)
C13_TouchMap ==
    [][/\ DOMAIN touchedPixels \subseteq DOMAIN touchedPixels'
       /\ ev'.type # "mousemove" => touchedPixels' = touchedPixels
       /\ ev'.type = "mousemove" =>
             \A c \in Reach :
                LET k == Key(c[1], c[2])
                    dx == c[1] - Floor(ev'.clientX, CellSize)
                    dy == c[2] - Floor(ev'.clientY, CellSize)
                IN  IF dx * dx + dy * dy <= BrushRadius * BrushRadius
                      THEN /\ k \in DOMAIN touchedPixels'
                           /\ touchedPixels'[k] = Intensity(ev'.seed, dx, dy)
                      ELSE /\ k \in DOMAIN touchedPixels' <=> k \in DOMAIN touchedPixels
                           /\ k \in DOMAIN touchedPixels =>
                                 touchedPixels'[k] = touchedPixels[k]
       /\ ev'.type \in {"bgMount", "bgFrame"} =>
             \A c \in GridCells :
                LET k == Key(c[1], c[2])
                IN  /\ canvas'[c].touched <=> k \in DOMAIN touchedPixels
                    /\ canvas'[c].touched => canvas'[c].touchMod = touchedPixels[k]
      ]_vars

C13_Witness ==
    /\ ev.type = "bgFrame"
    /\ canvas[<<0, 0>>].touched
    /\ canvas[<<Cols - 1, 0>>].touched
    /\ canvas[<<1, 0>>].touchMod # canvas[<<2, 0>>].touchMod
    /\ Cardinality(DOMAIN touchedPixels) > Cardinality(BrushOffsets)
    /\ scrollRef > 0

Pending(owner) == {r \in raf : r.owner = owner}

(* C11: once the canvas renderer or the particle scene is torn down, none  *)
(* of its frame callbacks is pending or runs and nothing more is drawn to  *)
(* its surface, at whatever point of the frame cycle it was torn down.     *)
C11_NoFrameAfterTeardown ==
    [][/\ bgStatus' = "torn" =>
             /\ {r \in raf' : r.owner = "bg"} = {}
             /\ ev'.type # "bgFrame"
             /\ canvas' = canvas
             /\ "bg" \notin late'
       /\ sceneStatus' = "torn" =>
             /\ {r \in raf' : r.owner = "scene"} = {}
             /\ ev'.type # "sceneFrame"
             /\ mesh' = mesh
             /\ scrollProgress' = scrollProgress
             /\ "scene" \notin late'
      ]_vars

C11_Witness ==
    /\ bgStatus = "torn"
    /\ sceneStatus = "torn"
    /\ rafNext <= MaxFrames
    /\ Abs(sceneFrameId - bgFrameId) > 1
    /\ Pending("bg") = {}
    /\ Pending("scene") = {}

LessEq(f, g) == ~Less(g, f)

(* C17: a frame of the particle scene replaces the damped progress d by    *)
(* d + 0.05 * (target - d): the gap to the target becomes 19/20 of what it *)
(* was and keeps its sign, d moves toward the target without passing it,   *)
(* and d stays within [0, 1] whatever scroll events and frames interleave. *)
C17_Damping ==
    [][/\ ev'.type \in {"sceneMount", "sceneFrame"} =>
             /\ Minus(targetScrollProgress, scrollProgress')
                   = Times(Minus(targetScrollProgress, scrollProgress), <<19, 20>>)
             /\ LessEq(scrollProgress, targetScrollProgress) =>
                   /\ LessEq(scrollProgress, scrollProgress')
                   /\ LessEq(scrollProgress', targetScrollProgress)
             /\ LessEq(targetScrollProgress, scrollProgress) =>
                   /\ LessEq(targetScrollProgress, scrollProgress')
                   /\ LessEq(scrollProgress', scrollProgress)
       /\ ev'.type \notin {"sceneMount", "sceneFrame"} =>
             scrollProgress' = scrollProgress
       /\ LessEq(Whole(0), scrollProgress') /\ LessEq(scrollProgress', Whole(1))
      ]_vars

C17_Witness ==
    /\ ev.type = "sceneFrame"
    /\ Less(targetScrollProgress, scrollProgress)
    /\ Less(Whole(0), scrollProgress)
    /\ scrollProgress[2] >= 20 * 20

IsSceneFrame == ev.type = "sceneFrame"

AsFractions(v) == [i \in 1 .. 3 |-> Whole(v[i])]

(* C15: at eased phase t = 0 a particle is at its start position and at    *)
(* t = 1 at its end position; the scale is 1 at t = 0 and t = 1 and takes  *)
(* its maximum, 3/2, at t = 1/2; the ease maps local progress 0 to 0,      *)
(* 1/2 to 1/2 and 1 to 1.                                                  *)
C15_Interpolation ==
    IsSceneFrame =>
        /\ mesh.t = Whole(0) =>
              mesh.position = AsFractions(particle.startPos) /\ mesh.scale = Whole(1)
        /\ mesh.t = Whole(1) =>
              mesh.position = AsFractions(particle.endPos) /\ mesh.scale = Whole(1)
        /\ mesh.scale = <<3, 2>> <=> mesh.t = <<1, 2>>
        /\ LessEq(Whole(1), mesh.scale) /\ LessEq(mesh.scale, <<3, 2>>)
        /\ mesh.localProgress = Whole(0) => mesh.t = Whole(0)
        /\ mesh.localProgress = <<1, 2>> => mesh.t = <<1, 2>>
        /\ mesh.localProgress = Whole(1) => mesh.t = Whole(1)

C15_Witness ==
    /\ IsSceneFrame
    /\ mesh.localProgress = <<1, 2>>
    /\ mesh.scale = <<3, 2>>
    /\ mesh.position # AsFractions(particle.startPos)
    /\ mesh.position # AsFractions(particle.endPos)

(* C19: whatever the particle's delay in [0, 1/2), at damped progress 0 it *)
(* is at its start position and at damped progress 5/6 or more it is at    *)
(* its end position.                                                       *)
C19_MorphComplete ==
    IsSceneFrame =>
        /\ scrollProgress = Whole(0) => mesh.position = AsFractions(particle.startPos)
        /\ LessEq(<<5, 6>>, scrollProgress) =>
              mesh.position = AsFractions(particle.endPos)

C19_Witness ==
    /\ IsSceneFrame
    /\ scrollProgress = <<5, 6>>
    /\ Less(Whole(0), particle.delay)
    /\ mesh.position = AsFractions(particle.endPos)
    /\ particle.startPos # particle.endPos

Torn(h) ==
    \/ appTorn /\ h \in {"handleScrollReset", "handleInput.wheel",
                          "handleInput.touchmove"}
    \/ bgStatus = "torn" /\ h \in {"bg.handleScroll", "bg.handleMouseMove"}
    \/ sceneStatus = "torn" /\ h \in {"scene.onResize", "scene.onScroll"}

(* C12: no handler is ever registered more than once on the window (at     *)
(* most one wheel and one touchmove handler across the re-runs of the      *)
(* scroll-jacking effect), and after a component's teardown none of its    *)
(* handlers is registered.                                                 *)
C12_ListenersRemoved ==
    \A h \in Handlers :
        /\ listeners[h] <= 1
        /\ Torn(h) => listeners[h] = 0

C12_Witness ==
    /\ appTorn
    /\ bgStatus = "torn"
    /\ sceneStatus = "torn"
    /\ heroState = "initial"
    /\ scrollY < Threshold
    /\ resetEffect.heroState = "initial"
    /\ modalTimer = "done"
    /\ \A h \in Handlers : listeners[h] = 0

(* C18: at most one 1500 ms transition timer is pending, and only while    *)
(* the hero state is 'transitioning' and App is mounted, so that no timer  *)
(* fires in state 'initial' or 'swapped' or after teardown.                *)
C18_Claim ==
    /\ timers <= 1
    /\ timers > 0 => (heroState = "transitioning" /\ ~appTorn)

(* What C21 says of one step *)
C21_Step ==
    /\ ev'.type = "counterFrame" =>
          /\ (Pending("counter")' # {}) <=> (ev'.timestamp - startTime' < Duration)
          /\ (Pending("counter")' = {}) => (count' = endProp)
    /\ count' \in 0 .. endProp
    /\ cuRendered'.count \in 0 .. endProp
    /\ starts' <= 1
    /\ Cardinality(Pending("counter")') <= 1
    /\ (cuStatus' = "torn") =>
          /\ Pending("counter")' = {}
          /\ ev'.type # "counterFrame"

(* C21: a frame of a started counter reschedules itself exactly while less *)
(* than the duration has elapsed; the count is never above end, and is end *)
(* when the loop stops; the loop is started at most once; a teardown       *)
(* leaves no frame pending; and a started counter, unless torn down,       *)
(* comes to rest with no frame pending and end displayed.                  *)
C21_CountLoop ==
    /\ [][C21_Step]_vars
    /\ (starts > 0) ~>
          \/ cuStatus = "torn"
          \/ Pending("counter") = {} /\ cuRendered.count = endProp

C21_Witness ==
    /\ cuStatus = "mounted"
    /\ starts = 1
    /\ Pending("counter") = {}
    /\ endProp > Duration
    /\ cuRendered.count = endProp
    /\ rafNext > 3
    /\ lastStamp - startTime = Duration

====
